---------------------------- MODULE Spec2Model ----------------------------
(***************************************************************************)
(* A model of winjitsu.py: a command-line utility that queries the active  *)
(* window (xdotool) and the display layout (xrandr), plans a target        *)
(* rectangle and animates the window to it in 25 interpolation steps, with *)
(* a per-window geometry cache on disk.                                    *)
(*                                                                         *)
(* Numbers.  Python mixes ints and floats here: screen_w / 2 is a float    *)
(* with a possible fractional half, and the animation accumulates          *)
(* (target - current) / 25.  The model keeps every such quantity exact:    *)
(* the arguments of move_window are numerators over 2 ("halves"), and the  *)
(* accumulators new_w, new_h, new_x, new_y are numerators over 50.  The    *)
(* float accumulation differs from the exact value by far less than 1/50,  *)
(* so round() can differ from exact round-half-to-even only on an exact    *)
(* tie; on a tie the model allows both neighbours.                         *)
(*                                                                         *)
(* Text.  Decimal text (the arguments handed to xdotool, the KEY=VALUE     *)
(* lines of the cache file and of xdotool's output, the WxH token of       *)
(* xrandr) is a sequence of one-character strings, written by str and read *)
(* back by int_str.                                                        *)
(***************************************************************************)
EXTENDS Integers, Sequences, FiniteSets, TLC

VARIABLES
    xrandrOut,      \* environment: the text xrandr prints (a sequence of lines)
    windows,        \* environment: geometry of every window, by window id
    active,         \* environment: id of the focused window
    cacheDir,       \* file system: does CACHE_DIR exist
    cache,          \* file system: file name -> lines, the files of CACHE_DIR
    action,         \* args.action of the running process
    fn,             \* the function of winjitsu.py that is executing
    pc,             \* position of the process: the next external interaction
    active_window,  \* get_window_position: text printed by getactivewindow
    win,            \* the dict get_window_position returned
    scr,            \* (screen_w, screen_h, base_x_offset) of get_screen_for_window
    mw,             \* the frame of move_window: arguments, steps, accumulators
    exitCode,       \* exit status of the process once pc = "exit"
    last,           \* the last external command run and its return code
    nreq,           \* number of requests this process has issued to xdotool
    lastSize,       \* argv of the most recent windowsize request
    lastMove,       \* argv of the most recent windowmove request
    nfail,          \* number of external commands that have failed
    runs,           \* number of processes started so far
    hist            \* the action and the start state of the last two processes started

vars == <<xrandrOut, windows, active, cacheDir, cache, action, fn, pc,
          active_window, win, scr, mw, exitCode, last, nreq, lastSize,
          lastMove, nfail, runs, hist>>

envVars == <<xrandrOut, active>>

-----------------------------------------------------------------------------
(* Bounds of the model *)

\* processes started in one behaviour
MaxRuns == 2
\* external commands that may fail in one behaviour of SpecFail
MaxFail == 1
\* move_window arguments drawn by InitAnim: targets range over -MaxHalf..MaxHalf halves
MaxHalf == 2

(* Program constants *)

steps == 25
FallbackW == 1920
FallbackH == 1080
Inset == 10
Offset == 5

-----------------------------------------------------------------------------
(* Decimal text *)

Digits == <<"0", "1", "2", "3", "4", "5", "6", "7", "8", "9">>

RECURSIVE NatToStr(_)
NatToStr(n) ==
    IF n < 10 THEN <<Digits[n + 1]>>
    ELSE NatToStr(n \div 10) \o <<Digits[(n % 10) + 1]>>

\* str(n) of a Python int
str(n) == IF n < 0 THEN <<"-">> \o NatToStr(0 - n) ELSE NatToStr(n)

DigitVal(c) == CHOOSE d \in 0..9 : Digits[d + 1] = c

RECURSIVE StrToNat(_)
StrToNat(s) ==
    IF Len(s) = 0 THEN 0
    ELSE StrToNat(SubSeq(s, 1, Len(s) - 1)) * 10 + DigitVal(s[Len(s)])

\* int(s) of decimal text
int_str(s) == IF s[1] = "-" THEN 0 - StrToNat(Tail(s)) ELSE StrToNat(s)

(* Numbers *)

\* an int as a numerator over 2
H(n) == 2 * n

\* a variant of int_float: rounding down (math.floor) instead of truncating
int_float_floor(t) == t \div 2

\* int(t) of a float given in halves: truncation toward zero
int_float(t) == IF t >= 0 THEN t \div 2 ELSE 0 - ((0 - t) \div 2)

\* round(v) of a float given in fiftieths: nearest integer, and on an exact
\* tie either neighbour (the float sum lies a rounding error off the tie)
round(v) ==
    LET q == v \div 50
        r == v % 50
    IN  IF r < 25 THEN {q} ELSE IF r > 25 THEN {q + 1} ELSE {q, q + 1}


-----------------------------------------------------------------------------
(* get_screens: the parse of xrandr's output.                               *)
(* A line of the output is [connected, primary, parts]: whether it contains *)
(* " connected", whether it contains " primary", and line.strip().split()   *)
(* as a sequence of tokens.  A token is the sequence of its pieces between  *)
(* 'x' characters, so 'x' in token is Len(token) > 1.                       *)

\* lines 51-57: the line after lines[i] exists, has a first token, with an 'x'
HasResolution(lines, i) ==
    /\ i + 1 <= Len(lines)
    /\ Len(lines[i + 1].parts) > 0
    /\ Len(lines[i + 1].parts[1]) > 1

\* lines 58, 67: w, h = map(int, res_str.split('x'))
ScreenData(lines, i) ==
    LET res_str == lines[i + 1].parts[1]
    IN  [width |-> int_str(res_str[1]), height |-> int_str(res_str[2])]

\* the loop of lines 47-72 from line i on, with the result so far.
\* primary is a sequence of at most one screen: empty is Python's None.
RECURSIVE ScanScreens(_, _, _)
ScanScreens(lines, i, acc) ==
    IF i > Len(lines) THEN acc
    ELSE IF lines[i].connected /\ HasResolution(lines, i)
         THEN IF lines[i].primary
              THEN ScanScreens(lines, i + 1,
                       [acc EXCEPT !.primary = <<ScreenData(lines, i)>>])
              ELSE ScanScreens(lines, i + 1,
                       [acc EXCEPT !.others = Append(@, ScreenData(lines, i))])
         ELSE ScanScreens(lines, i + 1, acc)

get_screens(lines) == ScanScreens(lines, 1, [primary |-> <<>>, others |-> <<>>])

\* get_primary_width (not called by any action)
get_primary_width(lines) ==
    LET s == get_screens(lines)
    IN  IF Len(s.primary) > 0 THEN s.primary[1].width ELSE FallbackW

\* a variant of get_screen_for_window: the comparison of line 159 off by one
get_screen_for_window_off_by_one(lines, x_pos) ==
    LET s == get_screens(lines)
    IN  IF Len(s.primary) = 0 THEN <<FallbackW, FallbackH, 0>>
        ELSE LET primary_width == s.primary[1].width
             IN  IF x_pos > primary_width
                 THEN IF Len(s.others) > 0
                      THEN <<s.others[1].width, s.others[1].height, primary_width>>
                      ELSE <<primary_width, s.primary[1].height, 0>>
                 ELSE <<primary_width, s.primary[1].height, 0>>

\* get_screen_for_window: <<screen_w, screen_h, base_x_offset>>
get_screen_for_window(lines, x_pos) ==
    LET s == get_screens(lines)
    IN  IF Len(s.primary) = 0 THEN <<FallbackW, FallbackH, 0>>
        ELSE LET primary_width == s.primary[1].width
             IN  IF x_pos > primary_width - 1
                 THEN IF Len(s.others) > 0
                      THEN <<s.others[1].width, s.others[1].height, primary_width>>
                      ELSE <<primary_width, s.primary[1].height, 0>>
                 ELSE <<primary_width, s.primary[1].height, 0>>

-----------------------------------------------------------------------------
(* The geometry cache *)

KeyOrder == <<"WINDOW", "X", "Y", "WIDTH", "HEIGHT", "SCREEN">>

\* the file name f"{window_id}.pid"
pid_file(window_id) == str(window_id) \o <<".", "p", "i", "d">>

\* the lines save_pid writes: f"{k}={v}\n" for each item of data, in the
\* order the dict was filled (the order of xdotool's output)
save_pid_lines(data) ==
    [i \in 1..Len(KeyOrder) |-> [k |-> KeyOrder[i], v |-> str(data[KeyOrder[i]])]]

\* the dict built from KEY=VALUE lines: data[k] = int(v), a later line
\* overwriting an earlier one with the same key (lines 22-25, 91-96)
ParseKeyValues(lines) ==
    [k \in {lines[i].k : i \in 1..Len(lines)} |->
        LET j == CHOOSE n \in 1..Len(lines) :
                    /\ lines[n].k = k
                    /\ \A m \in (n + 1)..Len(lines) : lines[m].k # k
        IN  int_str(lines[j].v)]

\* load_pid: a sequence of at most one dict, empty being None
load_pid(dirExists, files, window_id) ==
    IF dirExists /\ pid_file(window_id) \in DOMAIN files
    THEN <<ParseKeyValues(files[pid_file(window_id)])>>
    ELSE <<>>

\* a variant of load_pid_files: the record is removed once read
load_pid_consume(files, window_id) ==
    [n \in DOMAIN files \ {pid_file(window_id)} |-> files[n]]

\* the files of CACHE_DIR after load_pid(window_id): the file is opened for
\* reading and nothing is removed
load_pid_files(files, window_id) == files

\* the truth value of "if saved:": not None and not an empty dict
Truthy(saved) == Len(saved) > 0 /\ DOMAIN saved[1] # {}

NoFiles == [n \in {} |-> <<>>]

\* a variant of save_pid: an existing record is kept, not overwritten
save_pid_keep(dirExists, files, window_id, data) ==
    LET old == IF dirExists THEN files ELSE NoFiles
    IN  [n \in DOMAIN old \cup {pid_file(window_id)} |->
            IF n \in DOMAIN old THEN old[n] ELSE save_pid_lines(data)]

\* the files of CACHE_DIR after save_pid(window_id, data)
save_pid(dirExists, files, window_id, data) ==
    LET old == IF dirExists THEN files ELSE NoFiles
    IN  [n \in DOMAIN old \cup {pid_file(window_id)} |->
            IF n = pid_file(window_id) THEN save_pid_lines(data) ELSE old[n]]

-----------------------------------------------------------------------------
(* The placement planner.  A target is [w, h, x, y] in halves. *)

\* fullscreen, lines 178-194
fullscreen_target(s) ==
    [w |-> H(s[1] - Inset), h |-> H(s[2] - Inset),
     x |-> IF s[3] > 0 THEN H(s[3] + Offset) ELSE H(Offset),
     y |-> H(Offset)]

\* unscreen, lines 202-207 and 243-244: the start rectangle of the restore
unscreen_start(w, s) ==
    [w |-> H(w["WIDTH"] - Inset), h |-> H(w["HEIGHT"] - Inset),
     x |-> IF s[3] > 0 THEN H(s[3]) ELSE H(Offset),
     y |-> H(Offset)]

\* unscreen, lines 233-236
unscreen_target(saved) ==
    [w |-> H(saved["WIDTH"]), h |-> H(saved["HEIGHT"]),
     x |-> H(saved["X"]), y |-> H(saved["Y"])]

\* toggle_fullscreen, line 259
is_fullscreen(w, s) == w["WIDTH"] = s[1] - Inset

\* a variant of half: integer division, screen_w // 2
half_floor(n) == H(n \div 2)

\* n / 2, lines 269-270, 332-333: true division, so n halves
half(n) == n

\* direction, lines 264-335
direction_target(code, w, s) ==
    LET screen_w == H(s[1])
        screen_h == H(s[2])
        base     == H(s[3])
        half_w   == half(s[1])
        half_h   == half(s[2])
    IN  CASE code = "N"  -> [w |-> screen_w, h |-> half_h, x |-> base, y |-> 0]
          [] code = "S"  -> [w |-> screen_w, h |-> half_h, x |-> base, y |-> half_h]
          [] code = "E"  -> [w |-> half_w, h |-> screen_h, x |-> base + half_w, y |-> 0]
          [] code = "W"  -> [w |-> half_w, h |-> screen_h, x |-> base, y |-> 0]
          [] code = "NE" -> [w |-> half_w, h |-> half_h, x |-> base + half_w, y |-> 0]
          [] code = "NW" -> [w |-> half_w, h |-> half_h, x |-> base, y |-> 0]
          [] code = "SE" -> [w |-> half_w, h |-> half_h, x |-> base + half_w, y |-> half_h]
          [] code = "SW" -> [w |-> half_w, h |-> half_h, x |-> base, y |-> half_h]
          [] code = "C"  -> [w |-> H(w["WIDTH"]), h |-> H(w["HEIGHT"]),
                             x |-> half(s[1] - w["WIDTH"]) + base,
                             y |-> half(s[2] - w["HEIGHT"])]
          [] OTHER       -> [w |-> H(w["WIDTH"]), h |-> H(w["HEIGHT"]), x |-> 0, y |-> 0]

\* a variant of toggle_display_x: the shift is never negated
toggle_display_x_right(x, primary_width) == x + primary_width

\* toggle_display, lines 343-353: the target x (an int)
toggle_display_x(x, primary_width) ==
    IF x > primary_width - 1 THEN x + (0 - primary_width) ELSE x + primary_width

-----------------------------------------------------------------------------
(* move_window *)

\* lines 106-119: the frame after the set-up; every numeric argument in halves
move_window(target_w, target_h, window_id, current_w, current_h, current_x, current_y, target_x, target_y) ==
    [target_w |-> target_w, target_h |-> target_h, window_id |-> window_id,
     target_x |-> target_x, target_y |-> target_y,
     w_step |-> target_w - current_w, h_step |-> target_h - current_h,
     x_move_step |-> current_x - target_x, y_move_step |-> current_y - target_y,
     new_w |-> 25 * current_w, new_h |-> 25 * current_h,
     new_x |-> 25 * current_x, new_y |-> 25 * current_y,
     i |-> 0]

\* lines 128-131: the accumulators after one more iteration
accumulate(f) ==
    [f EXCEPT !.new_w = @ + f.w_step, !.new_h = @ + f.h_step,
              !.new_x = @ - f.x_move_step, !.new_y = @ - f.y_move_step]

\* the argv of the requests
windowsize_argv(window_id, w, h) ==
    <<"xdotool", "windowsize", str(window_id), str(w), str(h)>>

windowmove_argv(window_id, x, y) ==
    <<"xdotool", "windowmove", str(window_id), str(x), str(y)>>

\* lines 136-137: the final requests
final_windowsize(f) ==
    windowsize_argv(f.window_id, int_float(f.target_w), int_float(f.target_h))

final_windowmove(f) ==
    windowmove_argv(f.window_id, int_float(f.target_x), int_float(f.target_y))

\* the frame before any call of move_window
NoFrame == move_window(0, 0, 0, 0, 0, 0, 0, 0, 0)

-----------------------------------------------------------------------------
(* The collaborators *)

Ids == {7, 12}

\* what "xdotool getwindowgeometry --shell <id>" prints, as KEY=VALUE lines
getwindowgeometry_output(ws, id) ==
    <<[k |-> "WINDOW", v |-> str(id)],
      [k |-> "X",      v |-> str(ws[id].X)],
      [k |-> "Y",      v |-> str(ws[id].Y)],
      [k |-> "WIDTH",  v |-> str(ws[id].WIDTH)],
      [k |-> "HEIGHT", v |-> str(ws[id].HEIGHT)],
      [k |-> "SCREEN", v |-> str(0)]>>

\* the windows after xdotool has obeyed a windowsize or windowmove request
xdotool(ws, argv) ==
    LET id == int_str(argv[3])
        a  == int_str(argv[4])
        b  == int_str(argv[5])
    IN  IF argv[2] = "windowsize"
        THEN [ws EXCEPT ![id].WIDTH = a, ![id].HEIGHT = b]
        ELSE [ws EXCEPT ![id].X = a, ![id].Y = b]

\* lines of xrandr's output
NameToken == <<<<"o">>>>
RateToken == <<<<"6", "0">>>>
ModeToken(w, h) == <<str(w), str(h)>>
OutputLine(isPrimary) ==
    [connected |-> TRUE, primary |-> isPrimary, parts |-> <<NameToken, NameToken>>]
ModeLine(w, h) ==
    [connected |-> FALSE, primary |-> FALSE, parts |-> <<ModeToken(w, h), RateToken>>]
OtherLine == [connected |-> FALSE, primary |-> FALSE, parts |-> <<NameToken>>]
BlankLine == [connected |-> FALSE, primary |-> FALSE, parts |-> <<>>]

\* the display layouts of the model.  No output is marked primary:
XrandrNoPrimary == <<OtherLine, OutputLine(FALSE), ModeLine(25, 20)>>

\* a primary display alone, 40x31, with a second mode line:
XrandrSingle == <<OtherLine, OutputLine(TRUE), ModeLine(40, 31), ModeLine(32, 24)>>

\* a 51x21 secondary listed first, the 40x30 primary, an output whose
\* resolution line is missing, and one more secondary:
XrandrMulti ==
    <<OtherLine, OutputLine(FALSE), ModeLine(51, 21), OutputLine(TRUE),
      ModeLine(40, 30), OutputLine(FALSE), BlankLine, OutputLine(FALSE),
      ModeLine(64, 48)>>

XrandrOutputs == {XrandrNoPrimary, XrandrSingle, XrandrMulti}

-----------------------------------------------------------------------------
(* The process *)

Directions == {"N", "S", "E", "W", "NE", "NW", "SE", "SW", "C"}
Actions == Directions \cup {"F", "U", "TF", "TD", "CC"}
Queries == {"getactivewindow", "getwindowgeometry", "xrandr"}
Requests == {"windowsize", "windowmove"}

\* main, lines 365-376
dispatch(a) ==
    IF a \in Directions THEN "direction"
    ELSE IF a = "F" THEN "fullscreen"
    ELSE IF a = "U" THEN "unscreen"
    ELSE IF a = "TF" THEN "toggle_fullscreen"
    ELSE IF a = "TD" THEN "toggle_display"
    ELSE "clear_cache"

NoWin == [k \in {} |-> 0]
NoCmd == [cmd |-> "", rc |-> 0]

\* the last entry of the history, if any
LastOf(h) == IF Len(h) = 0 THEN <<>> ELSE <<h[Len(h)]>>

\* a process starts: main parses the action and dispatches
Invoke(a) ==
    /\ pc \in {"start", "exit"}
    /\ runs < MaxRuns
    /\ action' = a
    /\ fn' = dispatch(a)
    /\ pc' = IF a = "CC" THEN "clear_cache" ELSE "getactivewindow"
    /\ active_window' = <<>>
    /\ win' = NoWin
    /\ scr' = <<0, 0, 0>>
    /\ mw' = NoFrame
    /\ exitCode' = 0
    /\ last' = NoCmd
    /\ nreq' = 0
    /\ lastSize' = <<>>
    /\ lastMove' = <<>>
    /\ runs' = runs + 1
    /\ hist' = LastOf(hist) \o <<[act |-> a, windows |-> windows,
                                  cacheDir |-> cacheDir, cache |-> cache]>>
    /\ UNCHANGED <<envVars, windows, cacheDir, cache, nfail>>

\* a variant of Fatal: the error is reported and the exit status is 0
Fatal_status0(cmd) ==
    /\ nfail < MaxFail
    /\ pc' = "exit"
    /\ exitCode' = 0
    /\ last' = [cmd |-> cmd, rc |-> 1]
    /\ nfail' = nfail + 1
    /\ UNCHANGED <<envVars, windows, cacheDir, cache, action, fn, active_window,
                   win, scr, mw, nreq, lastSize, lastMove, runs, hist>>

\* a query command returned non-zero: CalledProcessError, print, sys.exit(1)
Fatal(cmd) ==
    /\ nfail < MaxFail
    /\ pc' = "exit"
    /\ exitCode' = 1
    /\ last' = [cmd |-> cmd, rc |-> 1]
    /\ nfail' = nfail + 1
    /\ UNCHANGED <<envVars, windows, cacheDir, cache, action, fn, active_window,
                   win, scr, mw, nreq, lastSize, lastMove, runs, hist>>

\* a query command returned zero
QueryOk(cmd) ==
    /\ last' = [cmd |-> cmd, rc |-> 0]
    /\ UNCHANGED <<envVars, windows, cacheDir, cache, action, exitCode, nreq,
                   lastSize, lastMove, nfail, runs, hist>>

\* get_window_position, line 19
GetActiveWindow(ok) ==
    /\ pc = "getactivewindow"
    /\ IF ok
       THEN /\ QueryOk("getactivewindow")
            /\ active_window' = str(active)
            /\ pc' = "getwindowgeometry"
            /\ UNCHANGED <<fn, win, scr, mw>>
       ELSE Fatal("getactivewindow")

\* get_window_position, lines 20-27
GetWindowGeometry(ok) ==
    /\ pc = "getwindowgeometry"
    /\ IF ok
       THEN /\ QueryOk("getwindowgeometry")
            /\ win' = ParseKeyValues(
                          getwindowgeometry_output(windows, int_str(active_window)))
            /\ pc' = IF fn = "fullscreen" THEN "save_pid" ELSE "xrandr"
            /\ UNCHANGED <<fn, active_window, scr, mw>>
       ELSE Fatal("getwindowgeometry")

\* fullscreen, line 176
SavePid ==
    /\ pc = "save_pid"
    /\ cacheDir' = TRUE
    /\ cache' = save_pid(cacheDir, cache, win["WINDOW"], win)
    /\ pc' = "xrandr"
    /\ UNCHANGED <<envVars, windows, action, fn, active_window, win, scr, mw,
                   exitCode, last, nreq, lastSize, lastMove, nfail, runs, hist>>

\* the call of move_window from the window's own geometry to target t
Animate(t, s) ==
    /\ scr' = s
    /\ mw' = move_window(t.w, t.h, win["WINDOW"], H(win["WIDTH"]), H(win["HEIGHT"]),
                         H(win["X"]), H(win["Y"]), t.x, t.y)
    /\ pc' = "windowsize"
    /\ UNCHANGED <<fn, active_window, win>>

\* direction, from the xrandr query on
direction(ok) ==
    /\ pc = "xrandr"
    /\ fn = "direction"
    /\ IF ok
       THEN /\ QueryOk("xrandr")
            /\ LET s == get_screen_for_window(xrandrOut, win["X"])
               IN  Animate(direction_target(action, win, s), s)
       ELSE Fatal("xrandr")

\* fullscreen, from the xrandr query on
fullscreen(ok) ==
    /\ pc = "xrandr"
    /\ fn = "fullscreen"
    /\ IF ok
       THEN /\ QueryOk("xrandr")
            /\ LET s == get_screen_for_window(xrandrOut, win["X"])
               IN  Animate(fullscreen_target(s), s)
       ELSE Fatal("xrandr")

\* unscreen, lines 200-207
unscreen(ok) ==
    /\ pc = "xrandr"
    /\ fn = "unscreen"
    /\ IF ok
       THEN /\ QueryOk("xrandr")
            /\ scr' = get_screen_for_window(xrandrOut, win["X"])
            /\ pc' = "load_pid"
            /\ UNCHANGED <<fn, active_window, win, mw>>
       ELSE Fatal("xrandr")

\* unscreen, lines 231-250
unscreen_load ==
    /\ pc = "load_pid"
    /\ LET saved == load_pid(cacheDir, cache, win["WINDOW"])
       IN  IF Truthy(saved)
           THEN LET t == unscreen_target(saved[1])
                    c == unscreen_start(win, scr)
                IN  /\ mw' = move_window(t.w, t.h, win["WINDOW"], c.w, c.h,
                                         c.x, c.y, t.x, t.y)
                    /\ pc' = "windowsize"
           ELSE /\ mw' = mw
                /\ pc' = "exit"
    /\ cache' = load_pid_files(cache, win["WINDOW"])
    /\ UNCHANGED <<envVars, windows, cacheDir, action, fn, active_window,
                   win, scr, exitCode, last, nreq, lastSize, lastMove, nfail,
                   runs, hist>>

\* toggle_fullscreen, lines 254-262
toggle_fullscreen(ok) ==
    /\ pc = "xrandr"
    /\ fn = "toggle_fullscreen"
    /\ IF ok
       THEN /\ QueryOk("xrandr")
            /\ scr' = get_screen_for_window(xrandrOut, win["X"])
            /\ fn' = IF is_fullscreen(win, scr') THEN "unscreen" ELSE "fullscreen"
            /\ pc' = "getactivewindow"
            /\ UNCHANGED <<active_window, win, mw>>
       ELSE Fatal("xrandr")

\* toggle_display, lines 339-355
toggle_display(ok) ==
    /\ pc = "xrandr"
    /\ fn = "toggle_display"
    /\ IF ok
       THEN /\ QueryOk("xrandr")
            /\ LET primary == get_screens(xrandrOut).primary
               IN  IF Len(primary) = 0
                   THEN /\ pc' = "exit"
                        /\ UNCHANGED <<fn, active_window, win, scr, mw>>
                   ELSE Animate([w |-> H(win["WIDTH"]), h |-> H(win["HEIGHT"]),
                                 x |-> H(toggle_display_x(win["X"], primary[1].width)),
                                 y |-> H(win["Y"])], scr)
       ELSE Fatal("xrandr")

\* a variant of rmtree: nothing is removed
rmtree_nothing(dirExists, files) == <<dirExists, files>>

\* clear_cache: <<does CACHE_DIR exist, its files>> afterwards
rmtree(dirExists, files) == <<FALSE, NoFiles>>

clear_cache ==
    /\ pc = "clear_cache"
    /\ cacheDir' = rmtree(cacheDir, cache)[1]
    /\ cache' = rmtree(cacheDir, cache)[2]
    /\ pc' = "exit"
    /\ UNCHANGED <<envVars, windows, action, fn, active_window, win, scr, mw,
                   exitCode, last, nreq, lastSize, lastMove, nfail, runs, hist>>

\* subprocess.run of a request: its return code is not looked at
Issue(argv, ok) ==
    /\ IF ok THEN TRUE ELSE nfail < MaxFail
    /\ nreq' = nreq + 1
    /\ last' = [cmd |-> argv[2], rc |-> IF ok THEN 0 ELSE 1]
    /\ nfail' = IF ok THEN nfail ELSE nfail + 1
    /\ windows' = IF ok THEN xdotool(windows, argv) ELSE windows
    /\ lastSize' = IF argv[2] = "windowsize" THEN argv ELSE lastSize
    /\ lastMove' = IF argv[2] = "windowmove" THEN argv ELSE lastMove
    /\ UNCHANGED <<envVars, cacheDir, cache, action, fn, active_window, win, scr,
                   exitCode, runs, hist>>

\* move_window, lines 127-133: one iteration up to the resize request
StepSize(ok) ==
    /\ pc = "windowsize"
    /\ mw.i < steps
    /\ mw' = accumulate(mw)
    /\ \E w \in round(mw'.new_w), h \in round(mw'.new_h) :
           Issue(windowsize_argv(mw.window_id, w, h), ok)
    /\ pc' = "windowmove"

\* a variant of loop_again: one iteration too many
loop_again_inclusive(i) == i < steps

\* the loop of line 127 runs again after iteration i
loop_again(i) == i + 1 < steps

\* move_window, line 134: the move request of the iteration
StepMove(ok) ==
    /\ pc = "windowmove"
    /\ \E x \in round(mw.new_x), y \in round(mw.new_y) :
           Issue(windowmove_argv(mw.window_id, x, y), ok)
    /\ mw' = [mw EXCEPT !.i = @ + 1]
    /\ pc' = IF loop_again(mw.i) THEN "windowsize" ELSE "final_windowsize"

\* move_window, line 136
FinalSize(ok) ==
    /\ pc = "final_windowsize"
    /\ Issue(final_windowsize(mw), ok)
    /\ pc' = "final_windowmove"
    /\ mw' = mw

\* move_window, line 137, and the return to main
FinalMove(ok) ==
    /\ pc = "final_windowmove"
    /\ Issue(final_windowmove(mw), ok)
    /\ pc' = "exit"
    /\ mw' = mw

-----------------------------------------------------------------------------
(* Specifications *)

\* the x of the active window at the start: left of the primary display, its
\* first and last column, and the last column within and the first beyond
\* twice its width
StartX == {0 - 1, 0, 39, 79, 80}

Geometry(x, y, w, h) == [X |-> x, Y |-> y, WIDTH |-> w, HEIGHT |-> h]

\* a record as an earlier fullscreen of window id at geometry g left it
Record(id, g) ==
    save_pid_lines([k \in {"WINDOW", "X", "Y", "WIDTH", "HEIGHT", "SCREEN"} |->
        CASE k = "WINDOW" -> id
          [] k = "X" -> g.X
          [] k = "Y" -> g.Y
          [] k = "WIDTH" -> g.WIDTH
          [] k = "HEIGHT" -> g.HEIGHT
          [] OTHER -> 0])

\* the cache directory of an initial state: absent, or holding a record of
\* each window
AbsentCache == <<FALSE, NoFiles>>

FullCache ==
    <<TRUE, [n \in {pid_file(7), pid_file(12)} |->
                IF n = pid_file(7) THEN Record(7, Geometry(20, 4, 15, 10))
                ELSE Record(12, Geometry(44, 1, 9, 6))]>>

\* the initial states: window 7 focused at every start x with a full cache
\* and at two of them with none, and window 12 focused with either cache.
\* Window 12 starts as a fullscreen on the 51x21 secondary display leaves it.
StartStates ==
    {[x |-> x, c |-> FullCache, a |-> 7] : x \in StartX}
        \cup {[x |-> x, c |-> AbsentCache, a |-> 7] : x \in {0, 79}}
        \cup {[x |-> 0, c |-> c, a |-> 12] : c \in {FullCache, AbsentCache}}

InitProcess ==
    /\ action = ""
    /\ fn = ""
    /\ active_window = <<>>
    /\ win = NoWin
    /\ scr = <<0, 0, 0>>
    /\ exitCode = 0
    /\ last = NoCmd
    /\ nreq = 0
    /\ lastSize = <<>>
    /\ lastMove = <<>>
    /\ nfail = 0
    /\ hist = <<>>

Init ==
    /\ xrandrOut \in XrandrOutputs
    /\ \E st \in StartStates :
           /\ active = st.a
           /\ windows = [i \in Ids |-> IF i = 7 THEN Geometry(st.x, 3, 12, 9)
                                       ELSE Geometry(45, 5, 41, 11)]
           /\ cacheDir = st.c[1]
           /\ cache = st.c[2]
    /\ pc = "start"
    /\ mw = NoFrame
    /\ runs = 0
    /\ InitProcess

\* the steps of a process whose collaborators succeed
Step ==
    \/ GetActiveWindow(TRUE)
    \/ GetWindowGeometry(TRUE)
    \/ SavePid
    \/ direction(TRUE)
    \/ fullscreen(TRUE)
    \/ unscreen(TRUE)
    \/ unscreen_load
    \/ toggle_fullscreen(TRUE)
    \/ toggle_display(TRUE)
    \/ clear_cache
    \/ StepSize(TRUE)
    \/ StepMove(TRUE)
    \/ FinalSize(TRUE)
    \/ FinalMove(TRUE)

Next ==
    \/ \E a \in Actions : Invoke(a)
    \/ Step

\* processes run one after another; every collaborator obeys
Spec == Init /\ [][Next]_vars

\* an external command returns non-zero
Fail ==
    \/ GetActiveWindow(FALSE)
    \/ GetWindowGeometry(FALSE)
    \/ direction(FALSE)
    \/ fullscreen(FALSE)
    \/ unscreen(FALSE)
    \/ toggle_fullscreen(FALSE)
    \/ toggle_display(FALSE)
    \/ StepSize(FALSE)
    \/ StepMove(FALSE)
    \/ FinalSize(FALSE)
    \/ FinalMove(FALSE)

\* the one process of SpecFail starts
InvokeOnce == \E a \in Actions : runs = 0 /\ Invoke(a)

NextFail ==
    \/ InvokeOnce
    \/ Step
    \/ Fail

\* one process, whose external commands may fail
SpecFail == Init /\ [][NextFail]_vars

\* move_window alone, on arguments drawn from bounded sets
InitAnim ==
    /\ xrandrOut = XrandrNoPrimary
    /\ active = 7
    /\ windows = [i \in Ids |-> Geometry(0, 0, 1, 1)]
    /\ cacheDir = FALSE
    /\ cache = NoFiles
    /\ pc = "windowsize"
    /\ \E tw \in (0 - MaxHalf)..MaxHalf, th \in (0 - MaxHalf)..MaxHalf,
          tx \in (0 - MaxHalf)..MaxHalf, ty \in (0 - MaxHalf)..MaxHalf,
          cw \in {H(0 - 1), H(3)}, ch \in {H(0 - 1), H(3)},
          cx \in {H(0 - 1), H(3)}, cy \in {H(0 - 1), H(3)} :
           mw = move_window(tw, th, 7, cw, ch, cx, cy, tx, ty)
    /\ runs = 1
    /\ InitProcess

NextAnim ==
    \/ StepSize(TRUE)
    \/ StepMove(TRUE)
    \/ FinalSize(TRUE)
    \/ FinalMove(TRUE)

SpecAnim == InitAnim /\ [][NextAnim]_vars

-----------------------------------------------------------------------------
(* Properties *)

\* the process running (or the last one run) and the one before it
Cur == hist[Len(hist)]
Prev == hist[1]

\* move_window has been called by this process
Called == mw.window_id # 0

Animating == pc \in {"windowsize", "windowmove", "final_windowsize", "final_windowmove"}

\* v is t, a number of halves, truncated toward zero
IsTruncated(t, v) ==
    IF t >= 0 THEN 2 * v <= t /\ t < 2 * v + 2
    ELSE t <= 2 * v /\ 2 * v - 2 < t

\* C1: once move_window has returned, the last resize request and the last
\* move request it issued carry the target width, height, x and y truncated
\* toward zero, for the window it was called with, whatever the intermediate
\* steps rounded to.
C1_FinalRequestsTruncated ==
    (pc = "exit" /\ Called) =>
        /\ Len(lastSize) = 5 /\ Len(lastMove) = 5
        /\ lastSize[2] = "windowsize" /\ lastMove[2] = "windowmove"
        /\ int_str(lastSize[3]) = mw.window_id
        /\ int_str(lastMove[3]) = mw.window_id
        /\ IsTruncated(mw.target_w, int_str(lastSize[4]))
        /\ IsTruncated(mw.target_h, int_str(lastSize[5]))
        /\ IsTruncated(mw.target_x, int_str(lastMove[4]))
        /\ IsTruncated(mw.target_y, int_str(lastMove[5]))

\* C1 witness: move_window has returned from a fractional negative target x
\* (-1/2, which truncates to 0 and not to -1) and a fractional target width
\* whose last interpolation step was an exact tie.
C1_Witness ==
    /\ pc = "exit" /\ Called
    /\ mw.target_x = 0 - 1 /\ lastMove[4] = str(0)
    /\ mw.target_w = 1 /\ mw.new_w = 25 /\ lastSize[4] = str(0)

\* get_screen_for_window has returned in this process and no request has
\* been issued yet: scr holds its result for the x of win (neither win nor scr
\* changes while the requests are issued)
Resolved == scr # <<0, 0, 0>> /\ nreq = 0

PrimaryOf(lines) == get_screens(lines).primary
OthersOf(lines) == get_screens(lines).others

\* s is the size of primary display p at base 0
IsPrimary(s, p) == s = <<p.width, p.height, 0>>

\* C2 as claimed: with a primary display of width P, get_screen_for_window
\* returns the primary display's size with base 0 if and only if x <= P - 1.
C2_Original ==
    Resolved =>
        LET primary == PrimaryOf(xrandrOut)
        IN  Len(primary) > 0 =>
                (IsPrimary(scr, primary[1]) <=> win["X"] <= primary[1].width - 1)

\* C2 as amended: with a primary display of width P > 0, get_screen_for_window
\* returns the primary display's size with base 0 if and only if x <= P - 1
\* or the layout has no secondary display; otherwise it returns the size of
\* the first secondary display with base P.
C2_PrimaryIffLeftOrAlone ==
    Resolved =>
        LET screens == get_screens(xrandrOut)
            primary == screens.primary
            others  == screens.others
        IN  Len(primary) > 0 =>
                /\ IsPrimary(scr, primary[1]) <=>
                       (win["X"] <= primary[1].width - 1 \/ Len(others) = 0)
                /\ ~IsPrimary(scr, primary[1]) =>
                       scr = <<others[1].width, others[1].height, primary[1].width>>

\* C2 witness: a window in the first column right of the primary display got
\* the first secondary display; the layout lists it before the primary.
C2_Witness ==
    /\ scr # <<0, 0, 0>>
    /\ pc = "exit"
    /\ xrandrOut = XrandrMulti
    /\ win["X"] = 40
    /\ scr = <<51, 21, 40>>

\* C3: when a fullscreen (F) of a window is followed by a restore (U) of the
\* same window and the restore has ended, the window has exactly the x, y,
\* width and height it had when the fullscreen started.
C3_RestoreAfterFullscreen ==
    (Len(hist) = 2 /\ Prev.act = "F" /\ Cur.act = "U" /\ pc = "exit") =>
        /\ windows[active] = Prev.windows[active]
        /\ nreq = 2 * steps + 2

\* C3 witness: a fullscreen and restore of a window that started on the
\* secondary display, over an older record of another geometry.
C3_Witness ==
    /\ Len(hist) = 2 /\ Prev.act = "F" /\ Cur.act = "U" /\ pc = "exit"
    /\ xrandrOut = XrandrMulti
    /\ Prev.windows[active] = Geometry(79, 3, 12, 9)
    /\ Cur.windows[active] = Geometry(45, 5, 41, 11)
    /\ Prev.cacheDir
    /\ windows[active] = Geometry(79, 3, 12, 9)

\* C4: in a restore (U) that follows a clear-cache (CC), no request is ever
\* issued, the windows keep their geometry, the cache directory stays absent,
\* and the process ends with exit status 0.
C4_RestoreAfterClearIsNoOp ==
    (Len(hist) = 2 /\ Prev.act = "CC" /\ Cur.act = "U") =>
        /\ nreq = 0
        /\ ~Animating
        /\ windows = Cur.windows
        /\ windows = Prev.windows
        /\ ~cacheDir
        /\ cache = NoFiles
        /\ exitCode = 0

\* C4 witness: such a restore has ended, and before the clear-cache the
\* directory held a record of the window.
C4_Witness ==
    /\ Len(hist) = 2 /\ Prev.act = "CC" /\ Cur.act = "U" /\ pc = "exit"
    /\ Prev.cacheDir
    /\ Truthy(load_pid(Prev.cacheDir, Prev.cache, active))

\* C5 as claimed: after any external command has failed, the process has
\* ended with a non-zero exit status.
C5_Original ==
    last.rc # 0 => (pc = "exit" /\ exitCode # 0)

\* C5 as amended: a query (active window id, window geometry, displays) that
\* fails ends the process at once with exit status 1, before any request has
\* been issued; the exit status is non-zero only then; a resize or move
\* request that fails is ignored: the process goes on and, once it has ended,
\* has issued all its requests and exits with status 0.
C5_QueryFailureFatalRequestFailureIgnored ==
    /\ (last.rc # 0 /\ last.cmd \in Queries) =>
           (pc = "exit" /\ exitCode = 1 /\ nreq = 0 /\ ~Called)
    /\ exitCode # 0 => (last.rc # 0 /\ last.cmd \in Queries)
    /\ (last.rc # 0 /\ last.cmd \in Requests) =>
           /\ exitCode = 0
           /\ pc = "exit" <=> nreq = 2 * steps + 2
    /\ (pc = "exit" /\ Called) => (exitCode = 0 /\ nreq = 2 * steps + 2)

\* C5 witness: a process whose last request failed has ended with status 0,
\* all its requests issued.
C5_Witness ==
    /\ pc = "exit" /\ exitCode = 0
    /\ last = [cmd |-> "windowmove", rc |-> 1]
    /\ nreq = 2 * steps + 2

\* a record of the active window lay in the cache when the process started
HadRecord(h) == Truthy(load_pid(h.cacheDir, h.cache, active))

\* C6 as claimed: once a restore (U) that found a record of the window has
\* ended, the cache holds no record of that window.
C6_Original ==
    (Len(hist) > 0 /\ Cur.act = "U" /\ HadRecord(Cur) /\ pc = "exit") =>
        load_pid(cacheDir, cache, active) = <<>>

\* C6 as amended: a restore (U) reads the record without removing it: during
\* and after it the cache is as it was when it started, and a second restore
\* right after the first finds the same record, issues its requests again
\* and leaves the window at the recorded geometry.
C6_RestoreKeepsRecord ==
    (Len(hist) > 0 /\ Cur.act = "U") =>
        /\ cacheDir = Cur.cacheDir
        /\ cache = Cur.cache
        /\ (Len(hist) = 2 /\ Prev.act = "U" /\ HadRecord(Prev) /\ pc = "exit") =>
               LET saved == load_pid(cacheDir, cache, active)[1]
               IN  /\ HadRecord(Cur)
                   /\ nreq = 2 * steps + 2
                   /\ windows[active] = Geometry(saved["X"], saved["Y"],
                                                 saved["WIDTH"], saved["HEIGHT"])

\* C6 witness: a second restore in a row has ended, the record still there.
C6_Witness ==
    /\ Len(hist) = 2 /\ Prev.act = "U" /\ Cur.act = "U" /\ pc = "exit"
    /\ HadRecord(Prev)
    /\ Prev.windows[active] = Geometry(39, 3, 12, 9)
    /\ windows[active] = Geometry(20, 4, 15, 10)
    /\ pid_file(active) \in DOMAIN cache

\* C7 as claimed: with no primary display, an action that enumerates the
\* displays (every action but CC; a restore when a record exists) runs on the
\* default 1920x1080 at base 0 and, once ended, has issued its requests.
C7_Claim ==
    (/\ Len(hist) > 0
     /\ Len(PrimaryOf(xrandrOut)) = 0
     /\ Cur.act # "CC"
     /\ Cur.act = "U" => HadRecord(Cur)
     /\ pc = "exit") =>
        /\ nreq = 2 * steps + 2
        /\ Cur.act # "TD" => scr = <<FallbackW, FallbackH, 0>>
        /\ Cur.act = "TD" =>
               windows[active].X = Cur.windows[active].X + FallbackW

\* the targets direction computes for the window and screen of this process
Target(code) == direction_target(code, win, scr)

\* rectangles a and b, [x, x + w) by [y, y + h), share no point
Disjoint(a, b) ==
    \/ a.x + a.w <= b.x
    \/ b.x + b.w <= a.x
    \/ a.y + a.h <= b.y
    \/ b.y + b.h <= a.y

\* rectangle a lies within the screen [base, base + screen_w) by [0, screen_h)
Within(a) ==
    /\ H(scr[3]) <= a.x /\ a.x + a.w <= H(scr[3]) + H(scr[1])
    /\ 0 <= a.y /\ a.y + a.h <= H(scr[2])

\* C8: for the screen and window of a directional action, the targets of N
\* and S have the screen's width, heights adding up to the screen's height,
\* S starting where N ends; those of E and W have the screen's height, widths
\* adding up to the screen's width, E starting where W ends; those of NE, NW,
\* SE and SW are each half the screen wide and high, pairwise disjoint, within
\* the screen and of the screen's total area, so that they cover it exactly;
\* and move_window is called with the target of the action's own code.
\* (All lengths are in halves.)
C8_DirectionalTargetsTile ==
    (Resolved /\ fn = "direction") =>
        LET N  == Target("N")
            S  == Target("S")
            E  == Target("E")
            W  == Target("W")
            NE == Target("NE")
            NW == Target("NW")
            SE == Target("SE")
            SW == Target("SW")
            A  == Target(action)
        IN  /\ N.h + S.h = H(scr[2])
            /\ S.y = N.y + N.h
            /\ N.w = H(scr[1]) /\ S.w = H(scr[1])
            /\ N.x = H(scr[3]) /\ S.x = H(scr[3])
            /\ E.w + W.w = H(scr[1])
            /\ E.x = W.x + W.w
            /\ E.h = H(scr[2]) /\ W.h = H(scr[2])
            /\ E.y = 0 /\ W.y = 0
            /\ \A q \in {NE, NW, SE, SW} :
                   /\ 2 * q.w = H(scr[1])
                   /\ 2 * q.h = H(scr[2])
                   /\ Within(q)
            /\ Disjoint(NE, NW) /\ Disjoint(NE, SE) /\ Disjoint(NE, SW)
            /\ Disjoint(NW, SE) /\ Disjoint(NW, SW) /\ Disjoint(SE, SW)
            /\ NE.w * NE.h + NW.w * NW.h + SE.w * SE.h + SW.w * SW.h
                   = H(scr[1]) * H(scr[2])
            /\ Called =>
                   /\ mw.target_w = A.w /\ mw.target_h = A.h
                   /\ mw.target_x = A.x /\ mw.target_y = A.y

\* C8 witness: an SE placement on the 51x21 secondary display at base 40 has
\* ended: the target is 25.5 by 10.5 at (65.5, 10.5).
C8_Witness ==
    /\ pc = "exit" /\ action = "SE" /\ fn = "direction"
    /\ scr = <<51, 21, 40>>
    /\ mw.target_w = 51 /\ mw.target_h = 21
    /\ mw.target_x = 131 /\ mw.target_y = 21
    /\ windows[active] = Geometry(65, 10, 25, 10)

\* C9: a call of move_window issues 52 requests in a fixed order: the k-th
\* is a resize for odd k and a move for even k, all for the window id it was
\* called with; the first 50 are the 25 iterations of the loop, then come the
\* final resize and the final move; and the process ends only after the 52nd.
C9_FiftyTwoRequestsInOrder ==
    /\ nreq <= 52
    /\ nreq > 0 =>
           /\ Called
           /\ last.cmd = IF nreq % 2 = 1 THEN "windowsize" ELSE "windowmove"
           /\ lastSize[2] = "windowsize" /\ int_str(lastSize[3]) = mw.window_id
    /\ nreq > 1 =>
           /\ lastMove[2] = "windowmove" /\ int_str(lastMove[3]) = mw.window_id
    /\ Animating => Called
    /\ Called =>
           /\ mw.window_id = active
           /\ mw.i = IF nreq < 50 THEN nreq \div 2 ELSE 25
           /\ pc \in {"windowsize", "windowmove", "final_windowsize",
                      "final_windowmove", "exit"}
           /\ pc = "windowsize" <=> (nreq < 50 /\ nreq % 2 = 0)
           /\ pc = "windowmove" <=> (nreq < 50 /\ nreq % 2 = 1)
           /\ pc = "final_windowsize" <=> nreq = 50
           /\ pc = "final_windowmove" <=> nreq = 51
           /\ pc = "exit" <=> nreq = 52

\* C9 witness: a call of move_window has returned after 52 requests, one of
\* which had failed.
C9_Witness ==
    /\ pc = "exit" /\ Called /\ nreq = 52 /\ nfail = 1
    /\ last = [cmd |-> "windowmove", rc |-> 0]

\* C10: with a primary display of width P, once the second of two
\* toggle-display (TD) runs in a row has ended, the window is back at the x it
\* had before the first exactly when that x was within 0..2P-1; from x < 0 it
\* is at x + 2P and from x >= 2P at x - 2P; and in each of the two runs the
\* window's y, width and height, the other windows and the cache are as before.
C10_ToggleDisplayTwice ==
    /\ (Len(hist) > 0 /\ Cur.act = "TD") =>
           /\ cacheDir = Cur.cacheDir /\ cache = Cur.cache
           /\ \A i \in Ids \ {active} : windows[i] = Cur.windows[i]
           /\ pc = "exit" =>
                  /\ windows[active].Y = Cur.windows[active].Y
                  /\ windows[active].WIDTH = Cur.windows[active].WIDTH
                  /\ windows[active].HEIGHT = Cur.windows[active].HEIGHT
    /\ (/\ Len(hist) = 2 /\ Prev.act = "TD" /\ Cur.act = "TD" /\ pc = "exit"
        /\ Len(PrimaryOf(xrandrOut)) > 0) =>
           LET P  == PrimaryOf(xrandrOut)[1].width
               x0 == Prev.windows[active].X
               x2 == windows[active].X
           IN  /\ x2 = x0 <=> (0 <= x0 /\ x0 <= 2 * P - 1)
               /\ x0 < 0 => x2 = x0 + 2 * P
               /\ x0 >= 2 * P => x2 = x0 - 2 * P
               /\ Cur.windows[active] =
                      [Prev.windows[active] EXCEPT !.X = Cur.windows[active].X]
               /\ Cur.cacheDir = Prev.cacheDir /\ Cur.cache = Prev.cache

\* C10 witness: two toggle-display runs from x = 80 = 2P have ended with the
\* window at 0, shifted left twice.
C10_Witness ==
    /\ Len(hist) = 2 /\ Prev.act = "TD" /\ Cur.act = "TD" /\ pc = "exit"
    /\ Prev.windows[active].X = 80
    /\ Cur.windows[active].X = 40
    /\ windows[active] = Geometry(0, 3, 12, 9)

=============================================================================
